---------------------------- MODULE Spec2Model ----------------------------
(***************************************************************************)
(* Model of FilesService (src/src/modules/files/services/file.service.ts)  *)
(* and of the FilesController routes that call it.  The record store       *)
(* (prisma.files), the object store (S3), the identity service             *)
(* (authClient) and the clock (Date.now) are the environment; every await  *)
(* of the service is one step of a request.                                *)
(***************************************************************************)
EXTENDS Integers, Sequences, FiniteSets, TLC

(* ------------------------------ bounds --------------------------------- *)
\* concurrent requests in flight
MaxReqs == 2
\* ids the record store can generate
MaxFiles == 1
\* last clock instant (milliseconds of Date.now())
MaxClock == 1

Users == {"u1", "u2"}
FileNames == {"a.png"}
Reqs == 1..MaxReqs
FileIds == 1..MaxFiles

(* --------------------------- program constants ------------------------- *)
\* retry(3)
RetryCount == 3
\* timeout(5000)
TimeoutMs == 5000

(* ------------------------------ numbers -------------------------------- *)
\* A JavaScript number: an integer or NaN.
Num(n) == [nan |-> FALSE, val |-> n]
NaN == [nan |-> TRUE, val |-> 0]
NumAdd(a, b) == IF a.nan \/ b.nan THEN NaN ELSE Num(a.val + b.val)
\* every comparison with NaN is false
NumGt(a, b) == ~a.nan /\ ~b.nan /\ a.val > b.val

Digits == <<"0", "1", "2", "3", "4", "5", "6", "7", "8", "9">>
DigitChars == {Digits[i] : i \in 1..10}
DigitVal(c) == (CHOOSE i \in 1..10 : Digits[i] = c) - 1

RECURSIVE DecimalValue(_)
DecimalValue(s) ==
    IF s = <<>> THEN 0
    ELSE 10 * DecimalValue(SubSeq(s, 1, Len(s) - 1)) + DigitVal(s[Len(s)])

\* An environment setting: unset, or a string of characters.
Unset == [defined |-> FALSE, str |-> <<>>]
EnvStr(s) == [defined |-> TRUE, str |-> s]

\* Number(v): undefined -> NaN, "" -> 0, a decimal numeral -> its value,
\* any other string -> NaN.
Number(v) ==
    IF ~v.defined THEN NaN
    ELSE IF \A i \in 1..Len(v.str) : v.str[i] \in DigitChars
         THEN Num(DecimalValue(v.str))
         ELSE NaN

\* Values of S3_PRESIGN_EXPIRE the deployment can carry.
PresignEnv == {Unset, EnvStr(<<"0">>), EnvStr(<<"1">>)}

(* ------------------------------ strings -------------------------------- *)
RECURSIVE NatToStr(_)
\* decimal digits of a natural number, as the template string prints it
NatToStr(n) ==
    IF n < 10 THEN <<Digits[n + 1]>>
    ELSE NatToStr(n \div 10) \o <<Digits[(n % 10) + 1]>>

StartsWith(s, p) == Len(p) <= Len(s) /\ SubSeq(s, 1, Len(p)) = p

\* `${userId}/${Date.now()}_${fileName}`
MintKey(userId, t, fileName) ==
    <<userId, "/">> \o NatToStr(t) \o <<"_", fileName>>

\* The keys a client can put in CreateFileDto.storageKey: any string, here
\* every key the service can mint and the key of the service's own tests.
ClientKeys ==
    {MintKey(u, t, f) : u \in Users, t \in 0..MaxClock, f \in FileNames}
        \cup {<<"some-key">>}


(* ------------------------------- state --------------------------------- *)
VARIABLES
    records,        \* prisma.files: file id -> row, or NoRecord
    nextId,         \* the next id the record store generates
    objects,        \* keys of the objects held by the bucket
    now,            \* Date.now()
    presignExpire,  \* process.env.S3_PRESIGN_EXPIRE
    reqs,           \* the requests in flight, one per slot
    response        \* the request that ended in this step, with its outcome

vars == <<records, nextId, objects, now, presignExpire, reqs, response>>

NoRecord == [present |-> FALSE, userId |-> "", fileName |-> "", storageKey |-> <<>>]
\* the row's key moved under its owner's prefix
RowRekeyed(userId, fileName, storageKey) ==
    [present |-> TRUE, userId |-> userId, fileName |-> fileName,
     storageKey |-> <<userId, "/">> \o storageKey]

Row(userId, fileName, storageKey) ==
    [present |-> TRUE, userId |-> userId, fileName |-> fileName,
     storageKey |-> storageKey]

NoUrl == [method |-> "", key |-> <<>>, date |-> 0, expiresIn |-> NaN]
\* What a presigned URL carries: X-Amz-Date and X-Amz-Expires for one key.
SignedUrl(method, key, date, expiresIn) ==
    [method |-> method, key |-> key, date |-> date, expiresIn |-> expiresIn]
\* The instant a presigned URL stops being honoured.
Expiry(url) == NumAdd(Num(url.date), url.expiresIn)

\* The outcome of a request: pending, resolved, or rejected with an error.
Pending == [status |-> "pending", error |-> "", cause |-> "", file |-> NoRecord,
            storageKey |-> <<>>, url |-> NoUrl, author |-> ""]
Resolved(file, storageKey, url, author) ==
    [Pending EXCEPT !.status = "resolved", !.file = file,
                    !.storageKey = storageKey, !.url = url, !.author = author]
Rejected(error, cause) ==
    [Pending EXCEPT !.status = "rejected", !.error = error, !.cause = cause]

\* One call a request made to a collaborator: the argument that names what
\* it acts on, and what came back.
Call(target, arg, outcome) == <<target, arg, outcome>>
CallsTo(req, target) == {i \in 1..Len(req.calls) : req.calls[i][1] = target}
Called(req, target) == CallsTo(req, target) # {}
IdArg(fileId) == <<"id">> \o NatToStr(fileId)
\* JSON.stringify({ userId })
Payload(userId) == <<"userId", userId>>

\* A request: its operation and arguments, where it stands (pc), the row it
\* read or created (file), the calls it has made, and its outcome.  sent and
\* lastOutcome are the state of the identity lookup's retry pipeline: the
\* subscriptions made so far and how the latest one ended (retry drops the
\* earlier errors), payloads the distinct payloads they carried and lastWait
\* the milliseconds the latest one took to end.  slot is set when the request
\* ends.
Idle == [op |-> "", pc |-> "idle", slot |-> 0, userId |-> "", fileId |-> 0,
         fileName |-> "", storageKey |-> <<>>, file |-> NoRecord, calls |-> <<>>,
         sent |-> 0, lastOutcome |-> "", payloads |-> {}, lastWait |-> 0,
         result |-> Pending]
NoResponse == Idle

Init ==
    /\ records = [id \in FileIds |-> NoRecord]
    /\ nextId = 1
    /\ objects = {}
    /\ now = 0
    /\ presignExpire \in PresignEnv
    /\ reqs = [r \in Reqs |-> Idle]
    /\ response = NoResponse

\* The request in slot r goes on to its next await.
Continue(r, req) ==
    /\ reqs' = [reqs EXCEPT ![r] = req]
    /\ response' = NoResponse

\* The request in slot r ends: its promise settles and the slot is free.
Finish(r, req, result) ==
    /\ reqs' = [reqs EXCEPT ![r] = Idle]
    /\ response' = [req EXCEPT !.pc = "done", !.slot = r, !.result = result]

(* ------------------------------ createFile ----------------------------- *)
\* prisma.files.create: the row is stored under a generated id, or the store
\* rejects the write.
\* the create awaited inside the try block, its error wrapped like a lookup's
CreateFailureWrapped == Rejected("FailedToRetrieveUser", "")

\* The create is awaited outside the try block: its rejection leaves
\* createFile as it is.
CreateFailure == Rejected("PrismaError", "")

CreateFile(r, userId, fileName, storageKey, storeOk) ==
    /\ reqs[r].pc = "idle"
    /\ nextId <= MaxFiles
    /\ LET req == [Idle EXCEPT !.op = "createFile", !.userId = userId,
                               !.fileName = fileName, !.storageKey = storageKey]
           row == Row(userId, fileName, storageKey)
       IN IF storeOk
          THEN /\ records' = [records EXCEPT ![nextId] = row]
               /\ nextId' = nextId + 1
               /\ Continue(r, [req EXCEPT !.pc = "lookup", !.fileId = nextId, !.file = row,
                                 !.calls = <<Call("files.create", storageKey, "ok")>>])
          ELSE /\ Finish(r, [req EXCEPT !.calls =
                                <<Call("files.create", storageKey, "error")>>],
                         CreateFailure)
               /\ UNCHANGED <<records, nextId>>
    /\ UNCHANGED <<objects, now, presignExpire>>

\* What the identity service can answer to getUserById.
Answers == {"user", "notFound", "transportError"}
\* How long an answer can take, in milliseconds.
Latencies == {10, 6000}

\* timeout(5000): an answer later than the timeout is a TimeoutError.
AttemptOutcome(answer, latency) ==
    IF latency >= TimeoutMs THEN "timeout" ELSE answer

\* retry(3): the source is resubscribed after an error until it has
\* errored 1 + count times.
MaxAttempts == 1 + RetryCount
\* the count taken as the number of attempts, not of retries
ShouldRetryShort(outcome, attempts) == outcome # "user" /\ attempts < RetryCount
\* the source resubscribed after every error
ShouldRetryForever(outcome, attempts) == outcome # "user"
ShouldRetry(outcome, attempts) == outcome # "user" /\ attempts < MaxAttempts

\* no timeout in the pipe: the subscription waits for the answer
AttemptWaitUnbounded(latency) == latency

\* timeout(5000): a subscription ends with the answer or when the timer fires.
AttemptWait(latency) == IF latency < TimeoutMs THEN latency ELSE TimeoutMs

\* One subscription to authClient.send('getUserById', { userId }) and what
\* timeout and retry make of its end.
IdentityLookup(r, answer, latency) ==
    /\ reqs[r].pc = "lookup"
    /\ LET req == reqs[r]
           outcome == AttemptOutcome(answer, latency)
           sent == [req EXCEPT !.sent = @ + 1, !.lastOutcome = outcome,
                               !.payloads = @ \cup {Payload(req.userId)},
                               !.lastWait = AttemptWait(latency)]
       IN IF outcome = "user"
          THEN Finish(r, sent, Resolved(req.file, <<>>, NoUrl, req.userId))
          ELSE IF ShouldRetry(outcome, sent.sent)
               THEN Continue(r, sent)
               ELSE Finish(r, sent, Rejected("FailedToRetrieveUser", outcome))
    /\ UNCHANGED <<records, nextId, objects, now, presignExpire>>

(* -------------------------- getPresignPutObject ------------------------ *)
\* the signer's error replaced by an error of the service's own
RethrowWrapped(error) == "Error"

\* catch (e) { throw e; }: the signer's error leaves the method unchanged.
Rethrow(error) == error

\* getSignedUrl(s3Client, command, { expiresIn: Number(presignExpire) })
Presign(method, key) == SignedUrl(method, key, now, Number(presignExpire))

\* The service method, called with the requester: the key is minted from
\* the clock and signed in the same step.
GetPresignPutObject(r, userId, fileName, signOk) ==
    /\ reqs[r].pc = "idle"
    /\ LET storageKey == MintKey(userId, now, fileName)
           req == [Idle EXCEPT !.op = "getPresignPutObject", !.userId = userId,
                               !.fileName = fileName, !.storageKey = storageKey]
       IN IF signOk
          THEN Finish(r, [req EXCEPT !.calls =
                             <<Call("getSignedUrl", storageKey, "ok")>>],
                      Resolved(NoRecord, storageKey, Presign("PUT", storageKey), ""))
          ELSE Finish(r, [req EXCEPT !.calls =
                             <<Call("getSignedUrl", storageKey, "error")>>],
                      Rejected(Rethrow("PresignError"), ""))
    /\ UNCHANGED <<records, nextId, objects, now, presignExpire>>

\* GET /files/presign/put: the route passes the query parameters only, so
\* the method destructures `id` from undefined and rejects with a TypeError.
PutPresignUrl(r, fileName) ==
    /\ reqs[r].pc = "idle"
    /\ Finish(r, [Idle EXCEPT !.op = "putPresignUrl", !.fileName = fileName],
              Rejected("TypeError", ""))
    /\ UNCHANGED <<records, nextId, objects, now, presignExpire>>

(* -------------------------- getPresignGetObject ------------------------ *)
\* prisma.files.findUnique({ where: { id } })
FindUnique(fileId) == records[fileId]

\* the lookup's result is not tested
GetObjectMissingNever(file) == FALSE

\* if (!file) in getPresignGetObject
GetObjectMissing(file) == ~file.present

GetPresignGetObject(r, fileId) ==
    /\ reqs[r].pc = "idle"
    /\ LET file == FindUnique(fileId)
           req == [Idle EXCEPT !.op = "getPresignGetObject", !.fileId = fileId,
                               !.file = file]
       IN IF GetObjectMissing(file)
          THEN Finish(r, [req EXCEPT !.calls =
                             <<Call("files.findUnique", IdArg(fileId), "null")>>],
                      Rejected("NotFoundException", ""))
          ELSE Continue(r, [req EXCEPT !.pc = "sign", !.calls =
                       <<Call("files.findUnique", IdArg(fileId), "row")>>])
    /\ UNCHANGED <<records, nextId, objects, now, presignExpire>>

\* the command built for the file's name
GetObjectKeyByName(file) == <<file.fileName>>

\* new GetObjectCommand({ Key: file.storageKey })
GetObjectKey(file) == file.storageKey

SignGetObject(r, signOk) ==
    /\ reqs[r].pc = "sign"
    /\ LET req == reqs[r]
           key == GetObjectKey(req.file)
       IN IF signOk
          THEN Finish(r, [req EXCEPT !.calls =
                             Append(@, Call("getSignedUrl", key, "ok"))],
                      Resolved(NoRecord, <<>>, Presign("GET", key), ""))
          ELSE Finish(r, [req EXCEPT !.calls =
                             Append(@, Call("getSignedUrl", key, "error"))],
                      Rejected(Rethrow("PresignError"), ""))
    /\ UNCHANGED <<records, nextId, objects, now, presignExpire>>

(* ------------------------------ deleteFile ----------------------------- *)
\* the lookup's result is not tested
DeleteFileMissingNever(file) == FALSE

\* if (!file) in deleteFile
DeleteFileMissing(file) == ~file.present

\* the ownership test is left out
IsOwnerAlways(file, userId) == TRUE

\* file.userId !== userId is the negation of this
IsOwner(file, userId) == file.userId = userId

\* the object's delete left out
AfterChecksRecordOnly == "deleteRecord"

\* What follows the two checks: the object's delete, then the record's.
AfterChecks == "deleteObject"

\* The lookup and the two checks that follow it.
DeleteFile(r, userId, fileId) ==
    /\ reqs[r].pc = "idle"
    /\ LET file == FindUnique(fileId)
           req == [Idle EXCEPT !.op = "deleteFile", !.userId = userId,
                               !.fileId = fileId, !.file = file]
           found == [req EXCEPT !.calls =
                        <<Call("files.findUnique", IdArg(fileId), "row")>>]
       IN IF DeleteFileMissing(file)
          THEN Finish(r, [req EXCEPT !.calls =
                             <<Call("files.findUnique", IdArg(fileId), "null")>>],
                      Rejected("NotFoundException", ""))
          ELSE IF ~IsOwner(file, userId)
               THEN Finish(r, found, Rejected("UnauthorizedException", ""))
               ELSE Continue(r, [found EXCEPT !.pc = AfterChecks])
    /\ UNCHANGED <<records, nextId, objects, now, presignExpire>>

\* s3Client.send(new DeleteObjectCommand({ Key: file.storageKey })): the
\* object is gone afterwards (a missing object is no error), or the store
\* rejects the command and the rejection leaves deleteFile.
\* the send taken to fail when there is no such object
ObjectDeleteAcceptedIfPresent(storeOk, key) == storeOk /\ key \in objects

\* await s3Client.send(command) resolves whenever the store accepts the
\* command, whether or not it holds the object.
ObjectDeleteAccepted(storeOk, key) == storeOk

DeleteObject(r, storeOk) ==
    /\ reqs[r].pc = "deleteObject"
    /\ LET req == reqs[r]
           key == req.file.storageKey
       IN IF ObjectDeleteAccepted(storeOk, key)
          THEN /\ objects' = objects \ {key}
               /\ Continue(r, [req EXCEPT !.pc = "deleteRecord",
                                 !.calls = Append(@, Call("s3Client.send", key, "ok"))])
          ELSE /\ Finish(r, [req EXCEPT !.calls =
                                Append(@, Call("s3Client.send", key, "error"))],
                         Rejected("S3Error", ""))
               /\ UNCHANGED objects
    /\ UNCHANGED <<records, nextId, now, presignExpire>>

\* the row kept by the delete
RemoveRowKept(rows, id) == rows

\* The rows after the store has deleted the one with this id.
RemoveRow(rows, id) == [rows EXCEPT ![id] = NoRecord]

\* prisma.files.delete({ where: { id } }): rejects when the store fails
\* ("error") or holds no such row ("notFound", the record to delete does not
\* exist).
DeleteRecord(r, storeOk) ==
    /\ reqs[r].pc = "deleteRecord"
    /\ LET req == reqs[r]
           id == req.fileId
           failure == IF storeOk THEN "notFound" ELSE "error"
       IN IF storeOk /\ records[id].present
          THEN /\ records' = RemoveRow(records, id)
               /\ Finish(r, [req EXCEPT !.calls =
                                Append(@, Call("files.delete", IdArg(id), "ok"))],
                         Resolved(NoRecord, <<>>, NoUrl, ""))
          ELSE /\ Finish(r, [req EXCEPT !.calls =
                                Append(@, Call("files.delete", IdArg(id), failure))],
                         Rejected("PrismaError", ""))
               /\ UNCHANGED records
    /\ UNCHANGED <<nextId, objects, now, presignExpire>>

(* ----------------------------- environment ----------------------------- *)
\* The store honours a presigned URL strictly before its expiry.
Honoured(url) == NumGt(Expiry(url), Num(now))

\* The client uploads with the PUT URL it has just been handed.
ClientUpload ==
    /\ response.result.status = "resolved"
    /\ response.result.url.method = "PUT"
    /\ Honoured(response.result.url)
    /\ objects' = objects \cup {response.result.url.key}
    /\ response' = NoResponse
    /\ UNCHANGED <<records, nextId, now, presignExpire, reqs>>

\* Date.now() moves on.
Tick ==
    /\ now < MaxClock
    /\ now' = now + 1
    /\ response' = NoResponse
    /\ UNCHANGED <<records, nextId, objects, presignExpire, reqs>>

Next ==
    \/ \E r \in Reqs, u \in Users, f \in FileNames, k \in ClientKeys, ok \in BOOLEAN :
           CreateFile(r, u, f, k, ok)
    \/ \E r \in Reqs, resp \in Answers, lat \in Latencies :
           IdentityLookup(r, resp, lat)
    \/ \E r \in Reqs, u \in Users, f \in FileNames, ok \in BOOLEAN :
           GetPresignPutObject(r, u, f, ok)
    \/ \E r \in Reqs, f \in FileNames : PutPresignUrl(r, f)
    \/ \E r \in Reqs, id \in FileIds : GetPresignGetObject(r, id)
    \/ \E r \in Reqs, ok \in BOOLEAN : SignGetObject(r, ok)
    \/ \E r \in Reqs, u \in Users, id \in FileIds : DeleteFile(r, u, id)
    \/ \E r \in Reqs, ok \in BOOLEAN : DeleteObject(r, ok)
    \/ \E r \in Reqs, ok \in BOOLEAN : DeleteRecord(r, ok)
    \/ ClientUpload
    \/ Tick

Spec == Init /\ [][Next]_vars

\* The service used by one client at a time: a request is started only after
\* the one before it has ended.
SeqNext ==
    \/ \E u \in Users, f \in FileNames, k \in ClientKeys, ok \in BOOLEAN :
           CreateFile(1, u, f, k, ok)
    \/ \E resp \in Answers, lat \in Latencies : IdentityLookup(1, resp, lat)
    \/ \E u \in Users, f \in FileNames, ok \in BOOLEAN :
           GetPresignPutObject(1, u, f, ok)
    \/ \E f \in FileNames : PutPresignUrl(1, f)
    \/ \E id \in FileIds : GetPresignGetObject(1, id)
    \/ \E ok \in BOOLEAN : SignGetObject(1, ok)
    \/ \E u \in Users, id \in FileIds : DeleteFile(1, u, id)
    \/ \E ok \in BOOLEAN : DeleteObject(1, ok)
    \/ \E ok \in BOOLEAN : DeleteRecord(1, ok)
    \/ ClientUpload
    \/ Tick

SpecSeq == Init /\ [][SeqNext]_vars

(* ------------------------------- claims -------------------------------- *)
\* The request that ended in this step, by operation.
Ended(op) == response.op = op
EndedNext(op) == response'.op = op
DeleteCalls(req) == Called(req, "s3Client.send") \/ Called(req, "files.delete")

\* C1: a deleteFile whose lookup finds a record owned by somebody else than
\* the requester is rejected with UnauthorizedException in that same step,
\* after calling neither the object store's delete nor the record store's,
\* and the step leaves the records and the objects as they were.
C1_NonOwnerDeleteRejected ==
    [][(/\ EndedNext("deleteFile")
        /\ response'.file.present
        /\ response'.file.userId # response'.userId)
       => /\ response'.result = Rejected("UnauthorizedException", "")
          /\ ~DeleteCalls(response')
          /\ records' = records
          /\ objects' = objects
          /\ records'[response'.fileId] = response'.file]_vars

\* C1 witness: a non-owner's deleteFile has just been rejected while the
\* record is stored and its object is in the bucket.
C1_Witness ==
    /\ Ended("deleteFile")
    /\ response.file.present
    /\ response.file.userId # response.userId
    /\ response.result.error = "UnauthorizedException"
    /\ records[response.fileId].present
    /\ records[response.fileId].storageKey \in objects

\* C2: every stored record's storage key begins with its owner's id and "/".
C2_KeysNamespaced ==
    \A id \in FileIds :
        records[id].present
            => StartsWith(records[id].storageKey, <<records[id].userId, "/">>)

\* C3: two upload-URL requests of the same owner for the same file name that
\* end one right after the other are handed different storage keys.
C3_UploadKeysDistinct ==
    [][(/\ Ended("getPresignPutObject")
        /\ EndedNext("getPresignPutObject")
        /\ response.result.status = "resolved"
        /\ response'.result.status = "resolved"
        /\ response.slot # response'.slot
        /\ response.userId = response'.userId
        /\ response.fileName = response'.fileName)
       => response.result.storageKey # response'.result.storageKey]_vars

\* C4: an owner's deleteFile whose object-store delete failed still deletes
\* the record and ends in success.
C4_ObjectDeleteFailureNotFatal ==
    (/\ Ended("deleteFile")
     /\ \E i \in CallsTo(response, "s3Client.send") : response.calls[i][3] = "error")
    => /\ Called(response, "files.delete")
       /\ response.result.status = "resolved"

\* C5: a createFile that ends in failure leaves no record of its own behind.
C5_NoRecordAfterFailedCreate ==
    (Ended("createFile") /\ response.result.status = "rejected")
    => \/ ~Called(response, "files.create")
       \/ response.calls[1][3] = "error"
       \/ ~records[response.fileId].present

\* C6: the identity lookup of createFile ends in success exactly when one of
\* its attempts is answered with the user, it is attempted again after every
\* failure while fewer than 1 + 3 attempts were made, and it ends in the
\* failure that names the user lookup only after 1 + 3 failed attempts.
C6_LookupWithinRetryBudget ==
    /\ \A r \in Reqs :
           reqs[r].pc = "lookup"
               => /\ reqs[r].sent < 1 + RetryCount
                  /\ reqs[r].lastOutcome # "user"
    /\ (Ended("createFile") /\ response.sent > 0)
       => /\ response.sent <= 1 + RetryCount
          /\ (response.lastOutcome = "user") = (response.result.status = "resolved")
          /\ response.result.status = "rejected"
                 => /\ response.sent = 1 + RetryCount
                    /\ response.result.error = "FailedToRetrieveUser"
                    /\ response.result.cause = response.lastOutcome

\* C6 witness: the lookup failed three times and was answered on the last
\* attempt of the budget; createFile ended in success.
C6_Witness ==
    /\ Ended("createFile")
    /\ response.sent = 1 + RetryCount
    /\ response.lastOutcome = "user"
    /\ response.result.status = "resolved"

\* C7: after a not-found answer the lookup is not sent again.
C7_NotFoundNotRetried ==
    \A r \in Reqs : ~(reqs[r].pc = "lookup" /\ reqs[r].lastOutcome = "notFound")

\* C8: a deleteFile whose lookup finds no record is rejected with
\* NotFoundException, whoever asks, and calls neither the object store's
\* delete nor the record store's.
C8_DeleteMissingNotFound ==
    (Ended("deleteFile") /\ ~response.file.present)
    => /\ response.result = Rejected("NotFoundException", "")
       /\ ~DeleteCalls(response)

\* C8 witness: a deleteFile for an id without a record has just been rejected.
C8_Witness ==
    /\ Ended("deleteFile")
    /\ ~response.file.present
    /\ ~records[response.fileId].present
    /\ response.result.error = "NotFoundException"

\* C9 as stated: getPresignGetObject on an id without a record is rejected
\* with NotFoundException and asks for no signed URL; on an id with a record
\* it returns a GET URL.
C9_DownloadUrlOrNotFound ==
    Ended("getPresignGetObject")
    => IF ~response.file.present
       THEN /\ response.result = Rejected("NotFoundException", "")
            /\ ~Called(response, "getSignedUrl")
       ELSE /\ response.result.status = "resolved"
            /\ response.result.url.method = "GET"

\* C9 amended: getPresignGetObject on an id without a record is rejected with
\* NotFoundException and asks for no signed URL; on an id with a record it
\* asks for one signed URL, for the record's storage key, and returns that
\* GET URL unless the signing fails, in which case it is rejected with the
\* signer's error.
C9_DownloadUrlUnlessSignerFails ==
    Ended("getPresignGetObject")
    => IF ~response.file.present
       THEN /\ response.result = Rejected("NotFoundException", "")
            /\ ~Called(response, "getSignedUrl")
       ELSE /\ Cardinality(CallsTo(response, "getSignedUrl")) = 1
            /\ \A i \in CallsTo(response, "getSignedUrl") :
                   response.calls[i][2] = response.file.storageKey
            /\ \/ /\ response.result.status = "resolved"
                  /\ response.result.url.method = "GET"
                  /\ response.result.url.key = response.file.storageKey
               \/ response.result = Rejected("PresignError", "")

\* C9 witness: a download URL has just been returned for a stored record.
C9_Witness ==
    /\ Ended("getPresignGetObject")
    /\ response.file.present
    /\ response.result.status = "resolved"
    /\ response.result.url.method = "GET"

\* C10: every presigned URL handed out expires strictly after its issuance.
C10_ExpiryAfterIssuance ==
    (response.result.status = "resolved" /\ response.result.url.method # "")
    => NumGt(Expiry(response.result.url), Num(response.result.url.date))

\* C11: a createFile that resolves returns a record whose storage key is the
\* key the caller supplied, unchanged, and whose owner is the caller's
\* verified user id; the record kept by the store is that same record.
C11_CreatedRecordAsSupplied ==
    (Ended("createFile") /\ response.result.status = "resolved")
    => /\ response.result.file.present
       /\ response.result.file.storageKey = response.storageKey
       /\ response.result.file.userId = response.userId
       /\ response.result.file = response.file

\* A createFile resolved for a key that is not of the service's minting.
C11_Witness ==
    /\ Ended("createFile")
    /\ response.result.status = "resolved"
    /\ response.userId = "u1"
    /\ response.storageKey = <<"some-key">>
    /\ response.result.file.storageKey = <<"some-key">>

\* C12: in the scenario of one client at a time (SpecSeq), where u1 is handed
\* an upload key and creates a file with it: a deleteFile by anybody but the
\* record's owner ends in UnauthorizedException and changes neither records
\* nor objects; when a deleteFile resolves, it was the owner's, and both the
\* record and the object at its key are gone; a record once removed never
\* comes back; and every getPresignGetObject and deleteFile for an id without
\* a record ends in NotFoundException.
C12_UploadCreateDeleteScenario ==
    [][/\ (/\ EndedNext("deleteFile")
           /\ response'.file.present
           /\ response'.file.userId # response'.userId)
          => /\ response'.result.error = "UnauthorizedException"
             /\ records' = records
             /\ objects' = objects
       /\ (EndedNext("deleteFile") /\ response'.result.status = "resolved")
          => /\ response'.file.userId = response'.userId
             /\ ~records'[response'.fileId].present
             /\ response'.file.storageKey \notin objects'
       /\ \A id \in FileIds :
              (id < nextId /\ ~records[id].present) => ~records'[id].present
       /\ (/\ response'.op \in {"getPresignGetObject", "deleteFile"}
           /\ ~records[response'.fileId].present)
          => response'.result.error = "NotFoundException"
      ]_vars

\* The end of the scenario: the file u1 created under a key minted for u1 was
\* deleted, and a getPresignGetObject for its id has just ended in
\* NotFoundException, with nothing left in the bucket.
C12_Witness ==
    /\ Ended("getPresignGetObject")
    /\ response.fileId < nextId
    /\ ~records[response.fileId].present
    /\ response.result.error = "NotFoundException"
    /\ objects = {}
    /\ now > 0

\* C13: when getSignedUrl rejects, getPresignPutObject and getPresignGetObject
\* reject with that very error: it is not wrapped, the signer is not asked a
\* second time, and neither a URL nor a storage key is returned.
C13_SignerErrorPropagates ==
    (/\ response.op \in {"getPresignPutObject", "getPresignGetObject"}
     /\ \E i \in CallsTo(response, "getSignedUrl") : response.calls[i][3] = "error")
    => /\ response.result = Rejected("PresignError", "")
       /\ Cardinality(CallsTo(response, "getSignedUrl")) = 1
       /\ response.result.url = NoUrl
       /\ response.result.storageKey = <<>>

\* A getPresignGetObject that found its record and then had the signer
\* reject.
C13_Witness ==
    /\ Ended("getPresignGetObject")
    /\ response.file.present
    /\ response.calls[Len(response.calls)] =
           Call("getSignedUrl", response.file.storageKey, "error")
    /\ response.result.status = "rejected"

\* C14: when prisma.files.create rejects, createFile rejects with that
\* persistence error and has sent no getUserById at all; the failure differs
\* from the one of a failed identity lookup, which is the error that names
\* the lookup and its cause.
C14_CreateFailureIsPersistenceError ==
    /\ (/\ Ended("createFile")
        /\ response.calls[1] = Call("files.create", response.storageKey, "error"))
       => /\ response.result = Rejected("PrismaError", "")
          /\ response.sent = 0
          /\ response.payloads = {}
          /\ Len(response.calls) = 1
    /\ (/\ Ended("createFile")
        /\ response.result.status = "rejected"
        /\ response.sent > 0)
       => /\ response.result.error = "FailedToRetrieveUser"
          /\ response.result.error # "PrismaError"
          /\ response.result.cause = response.lastOutcome

\* A createFile whose create was rejected by the record store.
C14_Witness ==
    /\ Ended("createFile")
    /\ response.calls[1][3] = "error"
    /\ response.result.status = "rejected"
    /\ response.sent = 0
    /\ \A id \in FileIds : ~records[id].present

\* C15: a step removes a record only as the last step of a deleteFile for
\* that record's id which resolves; a deleteFile that reached the record
\* store's delete has before that, in the same call, sent the object store a
\* delete for the storage key of the record it read; and a deleteFile
\* resolves only with the record store's delete as its last call, succeeded.
C15_ObjectDeleteBeforeRecordDelete ==
    [][/\ \A id \in FileIds :
              (records[id].present /\ ~records'[id].present)
              => /\ EndedNext("deleteFile")
                 /\ response'.fileId = id
                 /\ response'.result.status = "resolved"
       /\ (EndedNext("deleteFile") /\ Called(response', "files.delete"))
          => \A j \in CallsTo(response', "files.delete") :
                 \E i \in CallsTo(response', "s3Client.send") :
                     /\ i < j
                     /\ response'.calls[i][2] = response'.file.storageKey
       /\ (EndedNext("deleteFile") /\ response'.result.status = "resolved")
          => response'.calls[Len(response'.calls)] =
                 Call("files.delete", IdArg(response'.fileId), "ok")
      ]_vars

\* An owner's deleteFile has just resolved after both deletes, the object's
\* first, and its record is gone.
C15_Witness ==
    /\ Ended("deleteFile")
    /\ response.result.status = "resolved"
    /\ response.calls = <<Call("files.findUnique", IdArg(response.fileId), "row"),
                          Call("s3Client.send", response.file.storageKey, "ok"),
                          Call("files.delete", IdArg(response.fileId), "ok")>>
    /\ ~records[response.fileId].present

\* C16: while createFile waits for the identity service it has sent fewer
\* than 1 + 3 getUserById requests, and the next attempt can always end (with
\* the answer, or with the timer firing when no answer comes); every step of
\* the lookup sends one more request, so that the lookup ends after at most
\* 1 + 3 requests, with the user or with the lookup failure; every request
\* carried the payload { userId } of the caller, and none was waited for
\* longer than 5000 ms.
C16_LookupBoundedAndEnds ==
    [][/\ \A r \in Reqs :
              reqs[r].pc = "lookup"
              => /\ reqs[r].sent < 1 + RetryCount
                 /\ reqs[r].lastWait <= TimeoutMs
                 /\ reqs[r].payloads \subseteq {Payload(reqs[r].userId)}
                 /\ ENABLED (\E a \in Answers, l \in Latencies : IdentityLookup(r, a, l))
                 /\ reqs'[r] # reqs[r]
                    => \/ /\ reqs'[r].pc = "lookup"
                          /\ reqs'[r].sent = reqs[r].sent + 1
                       \/ /\ reqs'[r] = Idle
                          /\ EndedNext("createFile")
                          /\ response'.slot = r
                          /\ response'.sent = reqs[r].sent + 1
                          /\ response'.result.status \in {"resolved", "rejected"}
       /\ (EndedNext("createFile") /\ response'.sent > 0)
          => /\ response'.sent <= 1 + RetryCount
             /\ response'.lastWait <= TimeoutMs
             /\ response'.payloads = {Payload(response'.userId)}
             /\ response'.result.status = "rejected"
                => response'.result.error = "FailedToRetrieveUser"
      ]_vars

\* The identity service never answered: createFile ended with the lookup
\* failure after four requests, the last one cut off by the timer.
C16_Witness ==
    /\ Ended("createFile")
    /\ response.sent = 1 + RetryCount
    /\ response.lastOutcome = "timeout"
    /\ response.lastWait = TimeoutMs
    /\ response.payloads = {Payload(response.userId)}
    /\ response.result = Rejected("FailedToRetrieveUser", "timeout")

\* C17: a request to the upload-URL route ends with a storage key of the form
\* <requesterId>/<disambiguator>_<fileName>, under the requester's own
\* prefix, and never in a failure caused by the requester missing from the
\* call to getPresignPutObject.
C17_RouteKeyUnderRequester ==
    Ended("putPresignUrl")
    => /\ response.result.status = "resolved"
       /\ response.result.error # "TypeError"
       /\ \E u \in Users : StartsWith(response.result.storageKey, <<u, "/">>)

\* C18: when an owner's deleteFile ends at the record store's delete failing,
\* after the object's delete, a record present before that step is left as it
\* was; and the owner can then delete again with success: the lookup of a
\* present record by its owner passes on to the object's delete, the object's
\* delete is accepted by a working store whether or not the object is still
\* there, leaving no object at the key, and the record's delete by a working
\* store removes the record and resolves the call.
C18_RetryAfterFailedRecordDelete ==
    [][/\ (/\ EndedNext("deleteFile")
           /\ Called(response', "files.delete")
           /\ response'.calls[Len(response'.calls)][3] = "error"
           /\ records[response'.fileId].present)
          => /\ response'.result.status = "rejected"
             /\ records' = records
             /\ records'[response'.fileId] = response'.file
       /\ \A r \in Reqs :
           /\ \A id \in FileIds :
                  (reqs[r].pc = "idle" /\ records[id].present)
                  => ENABLED (/\ DeleteFile(r, records[id].userId, id)
                              /\ reqs'[r].pc = "deleteObject")
           /\ reqs[r].pc = "deleteObject"
              => ENABLED (/\ DeleteObject(r, TRUE)
                          /\ reqs'[r].pc = "deleteRecord"
                          /\ reqs[r].file.storageKey \notin objects')
           /\ (reqs[r].pc = "deleteRecord" /\ records[reqs[r].fileId].present)
              => ENABLED (/\ DeleteRecord(r, TRUE)
                          /\ response'.result.status = "resolved"
                          /\ ~records'[reqs[r].fileId].present)
      ]_vars

\* An owner's deleteFile has just failed at the record store's delete: the
\* object it deleted is gone and the record is still there.
C18_Witness ==
    /\ Ended("deleteFile")
    /\ response.file.userId = response.userId
    /\ response.calls = <<Call("files.findUnique", IdArg(response.fileId), "row"),
                          Call("s3Client.send", response.file.storageKey, "ok"),
                          Call("files.delete", IdArg(response.fileId), "error")>>
    /\ response.result.status = "rejected"
    /\ records[response.fileId] = response.file
    /\ response.file.storageKey \notin objects

\* C19: with deleteFile calls by the owner overlapping on one file id and
\* both stores working, every call ends resolved or in NotFoundException,
\* never in another failure.
C19_ConcurrentDeletesEndCleanly ==
    (/\ Ended("deleteFile")
     /\ response.file.present => response.file.userId = response.userId
     /\ \A i \in 1..Len(response.calls) : response.calls[i][3] # "error")
    => \/ response.result.status = "resolved"
       \/ response.result.error = "NotFoundException"

\* C20: no step of getPresignPutObject or getPresignGetObject, whatever its
\* outcome, changes the records or the stored objects; getPresignPutObject
\* calls nothing but the signer, at most once, and getPresignGetObject calls
\* nothing but one lookup of the record and then, when it found one, the
\* signer once for exactly that record's storage key.
C20_PresignLeavesStoresUnchanged ==
    [][/\ (\/ response'.op \in {"getPresignPutObject", "putPresignUrl",
                                "getPresignGetObject"}
           \/ \E r \in Reqs : /\ reqs'[r] # reqs[r]
                              /\ reqs'[r].op = "getPresignGetObject")
          => /\ records' = records
             /\ objects' = objects
             /\ nextId' = nextId
       /\ response'.op \in {"getPresignPutObject", "putPresignUrl"}
          => /\ Len(response'.calls) <= 1
             /\ \A i \in 1..Len(response'.calls) :
                    /\ response'.calls[i][1] = "getSignedUrl"
                    /\ response'.calls[i][2] = response'.result.storageKey
                       \/ response'.result.status = "rejected"
       /\ EndedNext("getPresignGetObject")
          => /\ response'.calls[1][1] = "files.findUnique"
             /\ response'.calls[1][2] = IdArg(response'.fileId)
             /\ Len(response'.calls) = (IF response'.file.present THEN 2 ELSE 1)
             /\ response'.file.present
                => /\ response'.calls[2][1] = "getSignedUrl"
                   /\ response'.calls[2][2] = response'.file.storageKey
       /\ \A r \in Reqs :
              (reqs'[r].op = "getPresignGetObject" /\ reqs'[r].pc = "sign")
              => reqs'[r].calls =
                     <<Call("files.findUnique", IdArg(reqs'[r].fileId), "row")>>
      ]_vars

\* A getPresignGetObject has just handed out a URL while the record it read
\* and an object at that record's key are both still in place.
C20_Witness ==
    /\ Ended("getPresignGetObject")
    /\ response.result.status = "resolved"
    /\ response.result.url.key = response.file.storageKey
    /\ records[response.fileId] = response.file
    /\ response.file.storageKey \in objects

=============================================================================
